---- MODULE Spec2Model ----
(***************************************************************************)
(* Model of the AutoTester.dev server core (server/index.js, gemini.js,    *)
(* utils.js): the usage limiter checkAiLimit, the generation pipeline      *)
(* POST /api/tests/generate and the code-fence extractor.                  *)
(*                                                                         *)
(* Every asynchronous handler is cut at its awaits: one action is the      *)
(* code that runs between two awaits, so that requests interleave exactly  *)
(* where the event loop lets them.  Calendar days are integers; a Date is  *)
(* represented by its calendar day, which is all toDateString() compares.  *)
(* Lookups and saves of the User collection are taken to succeed.          *)
(***************************************************************************)
EXTENDS Integers, Sequences, FiniteSets, TLC

(***************************************************************************)
(* Bounds of the model.                                                    *)
(***************************************************************************)
MaxDay == 2
MaxInFlight == 2
MaxPlans == 2
MaxTextLen == 7
MaxCalls == 2
MaxClock == 6
MaxElapsed == 3

Slots == 1..MaxInFlight
Days == 1..MaxDay
Calls == 1..MaxCalls

(***************************************************************************)
(* Identities.  authenticateToken hands the handlers req.user = {id}; the  *)
(* id "u0" is a token whose user record does not exist in the collection.  *)
(***************************************************************************)
UserIds == {"u0", "u1", "u2"}
NoUser == [exists |-> FALSE, subscriptionStatus |-> "none", aiRequestCount |-> 0,
           lastAiRequestTime |-> 0]
NoTime == 0
SubscriptionStatuses == {"none", "active", "trialing"}

(***************************************************************************)
(* checkAiLimit, server/index.js 127-170.                                  *)
(***************************************************************************)
DailyLimit == 3

IsLimited_TrialingLimited(user) ==
    user.exists /\ user.subscriptionStatus # "active"

\* index.js 134-138: the limit applies to a found user that is neither
\* active nor trialing.
IsLimited(user) ==
    /\ user.exists
    /\ user.subscriptionStatus # "active"
    /\ user.subscriptionStatus # "trialing"

\* index.js 139-143: the last request was made on today's calendar date.
IsToday(user, now) ==
    user.lastAiRequestTime # NoTime /\ user.lastAiRequestTime = now

LimitReached_OffByOne(user, now) ==
    IsToday(user, now) /\ user.aiRequestCount > DailyLimit

\* index.js 147-148: the 429 branch.
LimitReached(user, now) ==
    IsToday(user, now) /\ user.aiRequestCount >= DailyLimit

CountedRequest_NoReset(user, now) ==
    IF IsToday(user, now)
    THEN [user EXCEPT !.aiRequestCount = @ + 1]
    ELSE [user EXCEPT !.aiRequestCount = @ + 1, !.lastAiRequestTime = now]

\* index.js 153-158: the in-memory document after the counter update.
CountedRequest(user, now) ==
    IF IsToday(user, now)
    THEN [user EXCEPT !.aiRequestCount = @ + 1]
    ELSE [user EXCEPT !.aiRequestCount = 1, !.lastAiRequestTime = now]

\* index.js 153-157: the paths of the document the update marks modified.
ModifiedPaths(user, now) ==
    IF IsToday(user, now)
    THEN {"aiRequestCount"}
    ELSE {"aiRequestCount", "lastAiRequestTime"}

SavedUser_Lost(stored, doc, paths) == stored

SavedUser_Guarded(stored, doc, paths) ==
    IF stored.aiRequestCount + 1 = doc.aiRequestCount \/ "lastAiRequestTime" \in paths
    THEN [f \in DOMAIN stored |-> IF f \in paths THEN doc[f] ELSE stored[f]]
    ELSE stored

\* index.js 159: user.save() writes the modified paths of the document over
\* the stored record, whatever the record holds by then.
SavedUser(stored, doc, paths) ==
    [f \in DOMAIN stored |-> IF f \in paths THEN doc[f] ELSE stored[f]]

(***************************************************************************)
(* Texts.  A text is a sequence of tokens: "F" is a run of three           *)
(* backticks, "L" a letter or digit, "N" a line feed, "R" a carriage       *)
(* return, and every other token is a chunk of JSON source without line    *)
(* breaks or backticks, named after the value it denotes.                  *)
(***************************************************************************)
Null == "<null>"
NoJson == [t |-> "none", items |-> <<>>]

GoodStep == [t |-> "object", action |-> "string"]
NoActionStep == [t |-> "object", action |-> "absent"]
NullStep == [t |-> "null", action |-> "absent"]
Case(name, stepsType, steps) ==
    [t |-> "object", name |-> name, steps |-> [t |-> stepsType, items |-> steps]]
NullCase == [t |-> "null", name |-> "absent", steps |-> [t |-> "absent", items |-> <<>>]]
Array(items) == [t |-> "array", items |-> items]

PayloadNames ==
    {"Jplan", "Jplan2", "Jobject", "Jempty", "JnullCase", "JnoName", "JnoSteps",
     "JemptySteps", "JnoAction", "JnullStep"}

\* The value each chunk of JSON source denotes.
Payload(name) ==
    CASE name = "Jplan" -> Array(<<Case("string", "array", <<GoodStep>>)>>)
      [] name = "Jplan2" -> Array(<<Case("string", "array", <<GoodStep, GoodStep>>),
                                    Case("string", "array", <<GoodStep>>)>>)
      [] name = "Jobject" -> [t |-> "object", items |-> <<>>]
      [] name = "Jempty" -> Array(<<>>)
      [] name = "JnullCase" -> Array(<<Case("string", "array", <<GoodStep>>), NullCase>>)
      [] name = "JnoName" -> Array(<<Case("absent", "array", <<GoodStep>>)>>)
      [] name = "JnoSteps" -> Array(<<Case("string", "absent", <<>>)>>)
      [] name = "JemptySteps" -> Array(<<Case("string", "array", <<>>)>>)
      [] name = "JnoAction" -> Array(<<Case("string", "array", <<GoodStep, NoActionStep>>)>>)
      [] name = "JnullStep" -> Array(<<Case("string", "array", <<NullStep>>)>>)

Min(S) == CHOOSE x \in S : \A y \in S : x <= y

\* utils.js 13-18: the first match of /```(?:[a-zA-Z0-9]*)\n([\s\S]*?)\n```/,
\* or the text itself when nothing matches.
extractCodeSnippet(text) ==
    LET n == Len(text)
        TagEnd(i) == Min({j \in (i + 1)..(n + 1) : j = n + 1 \/ text[j] # "L"})
        Closings(i) == {k \in (TagEnd(i) + 1)..(n - 1) : text[k] = "N" /\ text[k + 1] = "F"}
        Matches(i) ==
            /\ text[i] = "F"
            /\ TagEnd(i) <= n
            /\ text[TagEnd(i)] = "N"
            /\ Closings(i) # {}
        starts == {i \in 1..n : Matches(i)}
    IN  IF starts = {}
        THEN text
        ELSE LET i == Min(starts)
             IN  SubSeq(text, TagEnd(i) + 1, Min(Closings(i)) - 1)

\* JSON.parse (index.js 249): white space around the one value is skipped;
\* anything else is a SyntaxError.
JsonParse(text) ==
    LET body == SelectSeq(text, LAMBDA c : c \notin {"N", "R"})
    IN  IF Len(body) = 1 /\ body[1] \in PayloadNames
        THEN [ok |-> TRUE, value |-> Payload(body[1])]
        ELSE [ok |-> FALSE, value |-> NoJson]

\* Array.prototype.every: the verdict of the first element that is not
\* accepted ("false", or "throw" for a TypeError), "true" when there is none.
Every(items, P(_)) ==
    LET bad == {i \in 1..Len(items) : P(items[i]) # "true"}
    IN  IF bad = {} THEN "true" ELSE P(items[Min(bad)])

\* index.js 260
StepCheck(step) ==
    IF step.t = "null" THEN "throw"
    ELSE IF step.action = "string" THEN "true" ELSE "false"

\* index.js 255-261
StrictCaseCheck(tc) ==
    IF tc.t = "null" THEN "throw"
    ELSE IF tc.name # "string" THEN "false"
    ELSE IF tc.steps.t # "array" THEN "false"
    ELSE IF Len(tc.steps.items) = 0 THEN "false"
    ELSE Every(tc.steps.items, StepCheck)

\* index.js 278
LenientCaseCheck(tc) ==
    IF tc.t = "null" THEN "throw"
    ELSE IF tc.name = "string" /\ tc.steps.t = "array" THEN "true" ELSE "false"

Validate_EmptyAllowed(v) ==
    IF v.t # "array" THEN "reject"
    ELSE LET strict == Every(v.items, StrictCaseCheck)
         IN  IF strict = "true" THEN "ok"
             ELSE IF strict = "throw" THEN "reject"
             ELSE IF Every(v.items, LenientCaseCheck) = "true" THEN "warn"
             ELSE "reject"

\* index.js 251-287: "ok" passes the strict check, "warn" is accepted with a
\* warning, "reject" throws into the catch of line 289.
Validate(v) ==
    IF v.t # "array" THEN "reject"
    ELSE IF Len(v.items) = 0 THEN "reject"
    ELSE LET strict == Every(v.items, StrictCaseCheck)
         IN  IF strict = "true" THEN "ok"
             ELSE IF strict = "throw" THEN "reject"
             ELSE IF Every(v.items, LenientCaseCheck) = "true" THEN "warn"
             ELSE "reject"

ParsePlan_Interior(aiResponse) ==
    LET parsed == JsonParse(extractCodeSnippet(aiResponse))
    IN  IF parsed.ok /\ Validate(parsed.value) # "reject"
        THEN [ok |-> TRUE, plan |-> parsed.value, raw |-> aiResponse]
        ELSE [ok |-> FALSE, plan |-> NoJson, raw |-> extractCodeSnippet(aiResponse)]

\* index.js 246-296: the parsed plan, or the failure that carries the raw
\* response of the model.
ParsePlan(aiResponse) ==
    LET parsed == JsonParse(extractCodeSnippet(aiResponse))
    IN  IF parsed.ok /\ Validate(parsed.value) # "reject"
        THEN [ok |-> TRUE, plan |-> parsed.value, raw |-> aiResponse]
        ELSE [ok |-> FALSE, plan |-> NoJson, raw |-> aiResponse]

\* The characters of the strings of the model.
Chars(str) ==
    CASE str = "" -> <<>>
      [] str = "doc" -> <<"d", "o", "c">>
      [] str = "app" -> <<"a", "p", "p">>
      [] str = "guide" -> <<"g", "u", "i", "d", "e">>
      [] str = "GUIDE" -> <<"G", "U", "I", "D", "E">>
      [] str = "Do" -> <<"D", "o">>
      [] str = "gemini" -> <<"g", "e", "m", "i", "n", "i">>
      [] str = "gemini-pro" -> <<"g", "e", "m", "i", "n", "i", "-", "p", "r", "o">>
      [] str = "gemini-flash" ->
            <<"g", "e", "m", "i", "n", "i", "-", "f", "l", "a", "s", "h">>
      [] str = "gpt-4" -> <<"g", "p", "t", "-", "4">>

\* String.prototype.startsWith
StartsWith(str, prefix) ==
    /\ Len(Chars(prefix)) <= Len(Chars(str))
    /\ SubSeq(Chars(str), 1, Len(Chars(prefix))) = Chars(prefix)

\* No model in the request body.
NoModel == ""

\* gemini.js 43-51: the model the call is made with.
ModelName(model) ==
    IF model = NoModel \/ ~StartsWith(model, "gemini") THEN "gemini-pro" ELSE model

\* gemini.js 39-122: the text of the first part, null when there is none
\* and null when the call fails.
getTextGemini(backend) ==
    IF backend.error \/ Len(backend.text) = 0 THEN <<>> ELSE backend.text

FallbackMarker == "No documentation content available."

DocSection_Raw(docContent) == docContent

\* index.js 231
DocSection(docContent) ==
    IF docContent # Null /\ docContent # "" THEN docContent ELSE FallbackMarker

\* index.js 210-233: the parts of the prompt that depend on the request.
Prompt(appUrl, docContent) ==
    [appUrl |-> appUrl, doc |-> DocSection(docContent)]

(***************************************************************************)
(* State.                                                                  *)
(***************************************************************************)
VARIABLES
    today,      \* the calendar day new Date() falls on
    users,      \* the User collection, by id
    plans,      \* the TestCase collection, in insertion order
    nextId,     \* the next ObjectId a new document is given
    req,        \* per request in flight: where it is and its live local variables
    res,        \* per request: the response res, status 0 while there is none
    succeeded,  \* history: the number of 201 responses sent
    admitted,   \* history: limited requests let through today, per user
    overlap,    \* history: the user had two requests inside the limiter at once today
    text,       \* extractor harness: the input text
    snippet,    \* extractor harness: what extractCodeSnippet returned
    clock,      \* the instant new Date() returns
    reports,    \* the TestReport collection, in insertion order
    call,       \* per run, get or list request in flight: where it is and its locals
    ans,        \* per run, get or list request: the response, status 0 while there is none
    fetch       \* the fetchPageContent call under study: where it is and its locals

vars == <<today, users, plans, nextId, req, res, succeeded, admitted, overlap, text, snippet,
          clock, reports, call, ans, fetch>>

\* What the generation pipeline and what the run, get and list endpoints work on.
genVars == <<today, users, plans, req, res, succeeded, admitted, overlap, text, snippet>>
testsVars == <<clock, reports, call, ans>>
fetchVars == <<fetch>>

\* No TestReport document.
NoReport ==
    [id |-> 0, testPlanId |-> 0, userId |-> "", status |-> "", startTime |-> 0,
     endTime |-> 0, results |-> Null, createdAt |-> 0]

NewUser == [exists |-> TRUE, subscriptionStatus |-> "none", aiRequestCount |-> 0,
            lastAiRequestTime |-> NoTime]

NoPrompt == [appUrl |-> "", doc |-> ""]
\* aiResponse and backend are history: the text the model call returned and,
\* for a call that returned none, whether the backend failed or sent no text.
NoResponse == [status |-> 0, error |-> "", testPlanId |-> 0, generatedPlan |-> NoJson,
               rawAiResponse |-> <<>>, aiResponse |-> <<>>, backend |-> ""]
NotRun == <<"?">>

\* No request in flight: none has been received yet.
NoRequest ==
    [pc |-> "idle", userId |-> "", docLink |-> "", appUrl |-> "", model |-> "",
     modelName |-> "", user |-> NoUser, paths |-> {}, now |-> 0, docContent |-> Null,
     prompt |-> NoPrompt, aiResponse |-> <<>>, plan |-> NoJson, planId |-> 0]

\* The response has been sent: the local variables of the handlers are gone,
\* what stays is whose request it was.
Finished(rq) == [NoRequest EXCEPT !.userId = rq.userId]

\* res.status(status).json({error}); the other fields are undefined.
Response(status, error) == [NoResponse EXCEPT !.status = status, !.error = error]

\* Request r gets its response.
Send(r, body) == res' = [res EXCEPT ![r] = body]

\* No run, get or list request in flight, and no response to one.
NoCall ==
    [pc |-> "idle", op |-> "", user |-> [id |-> "", isAdmin |-> FALSE], id |-> 0,
     type |-> "", status |-> "", search |-> "", limit |-> 0, skip |-> 0,
     doc |-> NoReport, plans |-> <<>>]
NoAnswer ==
    [status |-> 0, error |-> "", type |-> "", data |-> <<>>, runId |-> 0,
     testPlanId |-> 0, runStatus |-> ""]

\* No Content-Length header.
NoLength == -1

\* No response headers: fetch() has not resolved.
NoHeaders == [ok |-> FALSE, contentType |-> <<>>, contentLength |-> NoLength]

\* fetchPageContent has not been called.
NoFetch ==
    [pc |-> "off", timer |-> FALSE, elapsed |-> 0, response |-> NoHeaders,
     bodyRead |-> FALSE, error |-> "", result |-> Null]

Init ==
    /\ today = 1
    /\ users = [u \in UserIds |-> IF u = "u0" THEN NoUser ELSE NewUser]
    /\ plans = <<>>
    /\ nextId = 1
    /\ req = [r \in Slots |-> NoRequest]
    /\ res = [r \in Slots |-> NoResponse]
    /\ succeeded = 0
    /\ admitted = [u \in UserIds |-> 0]
    /\ overlap = [u \in UserIds |-> FALSE]
    /\ text = <<>>
    /\ snippet = NotRun
    /\ clock = 1
    /\ reports = <<>>
    /\ call = [c \in Calls |-> NoCall]
    /\ ans = [c \in Calls |-> NoAnswer]
    /\ fetch = NoFetch

(***************************************************************************)
(* POST /api/tests/generate.                                               *)
(***************************************************************************)

HandlerStart_NoFetch(rq) ==
    IF rq.docLink = "" \/ rq.appUrl = ""
    THEN [req |-> Finished(rq),
          res |-> Response(400, "Documentation link and App URL are required.")]
    ELSE [req |-> [rq EXCEPT !.pc = "model",
                             !.model = IF rq.model = NoModel THEN "gemini-pro" ELSE @],
          res |-> NoResponse]

\* index.js 164 and 177-190: next() runs the handler up to its first await.
\* rq is the request as it came in; a body without model gets the default.
HandlerStart(rq) ==
    IF rq.docLink = "" \/ rq.appUrl = ""
    THEN [req |-> Finished(rq),
          res |-> Response(400, "Documentation link and App URL are required.")]
    ELSE [req |-> [rq EXCEPT !.pc = "fetch",
                             !.model = IF rq.model = NoModel THEN "gemini-pro" ELSE @],
          res |-> NoResponse]

CheckAiLimit_CountsRejected(r, uid, docLink, appUrl, model) ==
    /\ req[r].pc = "idle"
    /\ LET user == users[uid]
           rq == [NoRequest EXCEPT !.userId = uid, !.docLink = docLink,
                                   !.appUrl = appUrl, !.model = model]
           rejected == IsLimited(user) /\ LimitReached(user, today)
           out == IF IsLimited(user)
                  THEN IF LimitReached(user, today)
                       THEN [req |-> Finished(rq),
                             res |-> Response(429, "Daily AI usage limit reached.")]
                       ELSE [req |-> [rq EXCEPT !.pc = "saveUser",
                                                !.user = CountedRequest(user, today),
                                                !.paths = ModifiedPaths(user, today),
                                                !.now = today],
                             res |-> NoResponse]
                  ELSE HandlerStart(rq)
       IN  /\ req' = [req EXCEPT ![r] = out.req]
           /\ Send(r, out.res)
           /\ users' = IF rejected
                       THEN [users EXCEPT ![uid].lastAiRequestTime = NoTime]
                       ELSE users
           /\ overlap' = [overlap EXCEPT ![uid] =
                            @ \/ \E o \in Slots \ {r} :
                                    req[o].userId = uid /\ req[o].pc = "saveUser"]
    /\ UNCHANGED <<today, plans, nextId, succeeded, admitted, text, snippet>>
    /\ UNCHANGED testsVars
    /\ UNCHANGED fetchVars

\* index.js 127-152 and 164: the request is received, User.findById resolves
\* and the limiter decides; it answers 429, starts user.save() or calls next().
CheckAiLimit(r, uid, docLink, appUrl, model) ==
    /\ req[r].pc = "idle"
    /\ LET user == users[uid]
           rq == [NoRequest EXCEPT !.userId = uid, !.docLink = docLink,
                                   !.appUrl = appUrl, !.model = model]
           out == IF IsLimited(user)
                  THEN IF LimitReached(user, today)
                       THEN [req |-> Finished(rq),
                             res |-> Response(429, "Daily AI usage limit reached.")]
                       ELSE [req |-> [rq EXCEPT !.pc = "saveUser",
                                                !.user = CountedRequest(user, today),
                                                !.paths = ModifiedPaths(user, today),
                                                !.now = today],
                             res |-> NoResponse]
                  ELSE HandlerStart(rq)
       IN  /\ req' = [req EXCEPT ![r] = out.req]
           /\ Send(r, out.res)
           /\ overlap' = [overlap EXCEPT ![uid] =
                            @ \/ \E o \in Slots \ {r} :
                                    req[o].userId = uid /\ req[o].pc = "saveUser"]
    /\ UNCHANGED <<today, users, plans, nextId, succeeded, admitted, text, snippet>>
    /\ UNCHANGED testsVars
    /\ UNCHANGED fetchVars

\* index.js 159-164: user.save() resolves, then next().
SaveUserDone(r) ==
    /\ req[r].pc = "saveUser"
    /\ LET uid == req[r].userId
           out == HandlerStart([req[r] EXCEPT !.user = NoUser, !.paths = {}, !.now = 0])
       IN  /\ users' = [users EXCEPT ![uid] = SavedUser(@, req[r].user, req[r].paths)]
           /\ admitted' = [admitted EXCEPT ![uid] =
                             IF req[r].now = today THEN @ + 1 ELSE @]
           /\ req' = [req EXCEPT ![r] = out.req]
           /\ Send(r, out.res)
    /\ UNCHANGED <<today, plans, nextId, succeeded, overlap, text, snippet>>
    /\ UNCHANGED testsVars
    /\ UNCHANGED fetchVars

\* index.js 186-239 and gemini.js 39-93: fetchPageContent resolves or throws,
\* the prompt is built and the model call starts, with the model modelName.
\* outcome is "throw" or what the fetcher returns.
FetchDone(r, outcome) ==
    /\ req[r].pc = "fetch"
    /\ LET docContent == IF outcome = "throw" THEN Null ELSE outcome
       IN  req' = [req EXCEPT ![r].pc = "model",
                              ![r].modelName = ModelName(req[r].model),
                              ![r].docContent = docContent,
                              ![r].prompt = Prompt(req[r].appUrl, docContent)]
    /\ UNCHANGED <<today, users, plans, nextId, res, succeeded, admitted, overlap, text,
                   snippet>>
    /\ UNCHANGED testsVars
    /\ UNCHANGED fetchVars

\* index.js 239-307: the model call resolves; its text is extracted, parsed
\* and validated, and the new TestCase document is constructed.
ModelDone(r, backend) ==
    /\ req[r].pc = "model"
    /\ LET aiResponse == getTextGemini(backend)
           parsed == ParsePlan(aiResponse)
       IN  IF Len(aiResponse) = 0
           THEN /\ req' = [req EXCEPT ![r] = Finished(req[r])]
                /\ Send(r, [Response(500, "AI model returned no response.")
                              EXCEPT !.backend = IF backend.error THEN "error"
                                                 ELSE "no text"])
                /\ UNCHANGED nextId
           ELSE IF ~parsed.ok
           THEN /\ req' = [req EXCEPT ![r] = Finished(req[r])]
                /\ Send(r, [Response(500, "Failed to generate valid test plan from AI.")
                              EXCEPT !.rawAiResponse = parsed.raw,
                                     !.aiResponse = aiResponse])
                /\ UNCHANGED nextId
           ELSE /\ nextId <= MaxPlans
                /\ req' = [req EXCEPT ![r].pc = "savePlan", ![r].aiResponse = aiResponse,
                                      ![r].plan = parsed.plan, ![r].planId = nextId,
                                      ![r].docContent = Null, ![r].prompt = NoPrompt]
                /\ nextId' = nextId + 1
                /\ UNCHANGED res
    /\ UNCHANGED <<today, users, plans, succeeded, admitted, overlap, text, snippet>>
    /\ UNCHANGED testsVars
    /\ UNCHANGED fetchVars

NewTestPlan_NoOwner(rq) ==
    [id |-> rq.planId, userId |-> "", docLink |-> rq.docLink, appUrl |-> rq.appUrl,
     modelUsed |-> rq.model, plan |-> rq.plan, createdAt |-> clock]

\* index.js 299-307
NewTestPlan(rq) ==
    [id |-> rq.planId, userId |-> rq.userId, docLink |-> rq.docLink, appUrl |-> rq.appUrl,
     modelUsed |-> rq.model, plan |-> rq.plan, createdAt |-> clock]

Inserted_Dedup(stored, doc) ==
    IF \E i \in 1..Len(stored) :
          stored[i].docLink = doc.docLink /\ stored[i].appUrl = doc.appUrl
    THEN stored
    ELSE Append(stored, doc)

Inserted_Upsert(stored, doc) ==
    IF \E i \in 1..Len(stored) :
          stored[i].docLink = doc.docLink /\ stored[i].appUrl = doc.appUrl
    THEN [i \in 1..Len(stored) |->
            IF stored[i].docLink = doc.docLink /\ stored[i].appUrl = doc.appUrl
            THEN doc ELSE stored[i]]
    ELSE Append(stored, doc)

\* index.js 308: newTestPlan.save() inserts the document.
Inserted(stored, doc) == Append(stored, doc)

\* index.js 308-322: the save resolves and 201 is res, or it rejects and the
\* error goes to the error middleware (index.js 742-752).
SavePlanDone(r, ok) ==
    /\ req[r].pc = "savePlan"
    /\ req' = [req EXCEPT ![r] = Finished(req[r])]
    /\ IF ok
       THEN /\ plans' = Inserted(plans, NewTestPlan(req[r]))
            /\ Send(r, [Response(201, "") EXCEPT !.testPlanId = req[r].planId,
                                                 !.generatedPlan = req[r].plan])
            /\ succeeded' = succeeded + 1
       ELSE /\ Send(r, Response(500, "save failed"))
            /\ UNCHANGED <<plans, succeeded>>
    /\ UNCHANGED <<today, users, nextId, admitted, overlap, text, snippet>>
    /\ UNCHANGED testsVars
    /\ UNCHANGED fetchVars

(***************************************************************************)
(* The environment.                                                        *)
(***************************************************************************)

\* Midnight passes.
NextDay ==
    /\ today < MaxDay
    /\ today' = today + 1
    /\ admitted' = [u \in UserIds |-> 0]
    /\ overlap' = [u \in UserIds |-> FALSE]
    /\ UNCHANGED <<users, plans, nextId, req, res, succeeded, text, snippet>>
    /\ UNCHANGED testsVars
    /\ UNCHANGED fetchVars

\* index.js 547-597: a subscription event sets the user's subscriptionStatus
\* with one findOneAndUpdate.
StripeWebhook(uid, status) ==
    /\ users[uid].exists
    /\ users[uid].subscriptionStatus # status
    /\ users' = [users EXCEPT ![uid].subscriptionStatus = status]
    /\ UNCHANGED <<today, plans, nextId, req, res, succeeded, admitted, overlap, text,
                   snippet>>
    /\ UNCHANGED testsVars
    /\ UNCHANGED fetchVars

(***************************************************************************)
(* The inputs the specifications draw.                                     *)
(***************************************************************************)
Fenced(j) == <<"F", "L", "N", j, "N", "F">>
ModelTexts ==
    {<<"Jplan">>, <<"L", "N", "F", "N", "Jplan2", "N", "F", "N", "L">>, <<"JnoAction">>,
     <<"L", "Jplan">>, <<"Jobject">>, Fenced("Jempty"), <<"JnoName">>, <<"JnoSteps">>,
     <<"JemptySteps">>, <<"JnullStep">>}
Backends ==
    {[error |-> TRUE, text |-> <<>>], [error |-> FALSE, text |-> <<>>]} \cup
    {[error |-> FALSE, text |-> t] : t \in ModelTexts}
FetchOutcomes == {"throw", Null, "", "page text"}

\* The limiter under every schedule of the days and of the subscription
\* events, for a user without a record and a user with one.  The documentation
\* is never fetched and the model call fails: SpecGen has the rest of the
\* pipeline.
Next ==
    \/ \E r \in Slots, uid \in {"u0", "u1"}, docLink \in {"", "doc"} :
          CheckAiLimit(r, uid, docLink, "app", "gemini-pro")
    \/ \E r \in Slots : SaveUserDone(r)
    \/ \E r \in Slots : FetchDone(r, Null)
    \/ \E r \in Slots : ModelDone(r, [error |-> TRUE, text |-> <<>>])
    \/ NextDay
    \/ \E status \in SubscriptionStatuses : StripeWebhook("u1", status)

Spec == Init /\ [][Next]_vars

\* The pipeline under every input, on one day, for two limited users who have
\* made two requests each today.
InitGen ==
    /\ today = 1
    /\ users = [u \in UserIds |->
                  IF u = "u0" THEN NoUser
                  ELSE [NewUser EXCEPT !.aiRequestCount = 2, !.lastAiRequestTime = 1]]
    /\ plans = <<>>
    /\ nextId = 1
    /\ req = [r \in Slots |-> NoRequest]
    /\ res = [r \in Slots |-> NoResponse]
    /\ succeeded = 0
    /\ admitted = [u \in UserIds |-> IF u = "u0" THEN 0 ELSE 2]
    /\ overlap = [u \in UserIds |-> FALSE]
    /\ text = <<>>
    /\ snippet = NotRun
    /\ clock = 1
    /\ reports = <<>>
    /\ call = [c \in Calls |-> NoCall]
    /\ ans = [c \in Calls |-> NoAnswer]
    /\ fetch = NoFetch

GenInputs == {<<"", "app">>, <<"doc", "">>, <<"doc", "app">>}

NextGen ==
    \/ \E r \in Slots, uid \in {"u1", "u2"}, in \in GenInputs :
          CheckAiLimit(r, uid, in[1], in[2], "gemini-pro")
    \/ \E r \in Slots : SaveUserDone(r)
    \/ \E r \in Slots, outcome \in FetchOutcomes : FetchDone(r, outcome)
    \/ \E r \in Slots, backend \in Backends : ModelDone(r, backend)
    \/ \E r \in Slots, ok \in BOOLEAN : SavePlanDone(r, ok)

SpecGen == InitGen /\ [][NextGen]_vars

\* The extractor on its own, for every text of up to MaxTextLen tokens.
Tokens == {"F", "L", "N", "R", "Jplan"}
Texts == UNION {[1..n -> Tokens] : n \in 0..MaxTextLen}

InitExtract ==
    /\ today = 1
    /\ users = [u \in UserIds |-> IF u = "u0" THEN NoUser ELSE NewUser]
    /\ plans = <<>>
    /\ nextId = 1
    /\ req = [r \in Slots |-> NoRequest]
    /\ res = [r \in Slots |-> NoResponse]
    /\ succeeded = 0
    /\ admitted = [u \in UserIds |-> 0]
    /\ overlap = [u \in UserIds |-> FALSE]
    /\ text \in Texts
    /\ snippet = NotRun
    /\ clock = 1
    /\ reports = <<>>
    /\ call = [c \in Calls |-> NoCall]
    /\ ans = [c \in Calls |-> NoAnswer]
    /\ fetch = NoFetch

\* index.js 248: extractCodeSnippet(aiResponse)
Extract ==
    /\ snippet = NotRun
    /\ snippet' = extractCodeSnippet(text)
    /\ UNCHANGED <<today, users, plans, nextId, req, res, succeeded, admitted, overlap,
                   text>>
    /\ UNCHANGED testsVars
    /\ UNCHANGED fetchVars

NextExtract == Extract

SpecExtract == InitExtract /\ [][NextExtract]_vars

(***************************************************************************)
(* POST /api/tests/:id/run, GET /api/tests/:id and GET /api/tests,         *)
(* server/index.js 326-518.  authenticateToken hands the handlers          *)
(* req.user = {id, isAdmin}.                                               *)
(***************************************************************************)
NoPlan ==
    [id |-> 0, userId |-> "", docLink |-> "", appUrl |-> "", modelUsed |-> "",
     plan |-> NoJson, createdAt |-> 0]

\* Model.findById: the document of the collection with that _id, or null.
FindById(coll, id, null) ==
    IF \E i \in 1..Len(coll) : coll[i].id = id
    THEN coll[CHOOSE i \in 1..Len(coll) : coll[i].id = id]
    ELSE null

\* The request of slot c has been answered: its locals are gone, what stays
\* is what was asked.
Answered(cl) == [cl EXCEPT !.pc = "idle", !.doc = NoReport, !.plans = <<>>]

Answer(status, error) == [NoAnswer EXCEPT !.status = status, !.error = error]

RunDecision_OwnerOnly(testPlan, user) ==
    IF testPlan = NoPlan THEN "404"
    ELSE IF testPlan.userId # user.id THEN "403"
    ELSE "accept"

\* index.js 333-339
RunDecision(testPlan, user) ==
    IF testPlan = NoPlan THEN "404"
    ELSE IF testPlan.userId # user.id /\ ~user.isAdmin THEN "403"
    ELSE "accept"

NewTestReport_Running(testPlan, user, id, now) ==
    [id |-> id, testPlanId |-> testPlan.id, userId |-> user.id, status |-> "running",
     startTime |-> now, endTime |-> 0, results |-> Null, createdAt |-> now]

\* index.js 344-351; endTime and results are not given and have no default
\* (TestReport.js 22-27).
NewTestReport(testPlan, user, id, now) ==
    [id |-> id, testPlanId |-> testPlan.id, userId |-> user.id, status |-> "queued",
     startTime |-> now, endTime |-> 0, results |-> Null, createdAt |-> now]

\* index.js 352: newTestReport.save() inserts the document.
InsertedReport(stored, doc) == Append(stored, doc)

RunRequest_WriteFirst(c, user, id) ==
    /\ call[c].pc = "idle"
    /\ clock < MaxClock
    /\ LET testPlan == FindById(plans, id, NoPlan)
           decision == RunDecision(testPlan, user)
           cl == [NoCall EXCEPT !.op = "run", !.user = user, !.id = id]
       IN  /\ call' = [call EXCEPT ![c] = Answered(cl)]
           /\ reports' = InsertedReport(reports, NewTestReport(testPlan, user, nextId, clock))
           /\ ans' = [ans EXCEPT ![c] =
                        IF decision = "404" THEN Answer(404, "Test plan not found")
                        ELSE IF decision = "403"
                        THEN Answer(403, "Unauthorized: You do not own this test plan")
                        ELSE [Answer(202, "") EXCEPT !.runId = nextId, !.testPlanId = id,
                                                     !.runStatus = "queued"]]
           /\ nextId' = nextId + 1
           /\ clock' = clock + 1
    /\ UNCHANGED genVars
    /\ UNCHANGED fetchVars

\* index.js 326-351: the request is received, TestCase.findById resolves, the
\* handler answers 404 or 403 or constructs the report and starts its save.
RunRequest(c, user, id) ==
    /\ call[c].pc = "idle"
    /\ LET testPlan == FindById(plans, id, NoPlan)
           decision == RunDecision(testPlan, user)
           cl == [NoCall EXCEPT !.op = "run", !.user = user, !.id = id]
       IN  CASE decision = "404" ->
                  /\ call' = [call EXCEPT ![c] = Answered(cl)]
                  /\ ans' = [ans EXCEPT ![c] = Answer(404, "Test plan not found")]
                  /\ UNCHANGED <<nextId, clock>>
             [] decision = "403" ->
                  /\ call' = [call EXCEPT ![c] = Answered(cl)]
                  /\ ans' = [ans EXCEPT ![c] =
                               Answer(403, "Unauthorized: You do not own this test plan")]
                  /\ UNCHANGED <<nextId, clock>>
             [] decision = "accept" ->
                  /\ clock < MaxClock
                  /\ call' = [call EXCEPT ![c] =
                                [cl EXCEPT !.pc = "saveReport",
                                           !.doc = NewTestReport(testPlan, user, nextId, clock)]]
                  /\ ans' = [ans EXCEPT ![c] = NoAnswer]
                  /\ nextId' = nextId + 1
                  /\ clock' = clock + 1
    /\ UNCHANGED reports
    /\ UNCHANGED genVars
    /\ UNCHANGED fetchVars

\* index.js 352-376: the save resolves and 202 is sent, or it rejects and the
\* error goes to the error middleware.
RunSaveDone(c, ok) ==
    /\ call[c].pc = "saveReport"
    /\ call' = [call EXCEPT ![c] = Answered(call[c])]
    /\ IF ok
       THEN /\ reports' = InsertedReport(reports, call[c].doc)
            /\ ans' = [ans EXCEPT ![c] =
                         [Answer(202, "") EXCEPT !.runId = call[c].doc.id,
                                                 !.testPlanId = call[c].doc.testPlanId,
                                                 !.runStatus = call[c].doc.status]]
       ELSE /\ ans' = [ans EXCEPT ![c] = Answer(500, "save failed")]
            /\ UNCHANGED reports
    /\ UNCHANGED <<nextId, clock>>
    /\ UNCHANGED genVars
    /\ UNCHANGED fetchVars

ReadDecision_Open(document, user) == "200"

\* index.js 403-411: documentUserId is the userId of the document found.
ReadDecision(document, user) ==
    LET documentUserId == document.userId
    IN  IF documentUserId = "" \/ (documentUserId # user.id /\ ~user.isAdmin)
        THEN "403"
        ELSE "200"

\* One document as the responses carry it: the fields of the stored document
\* that both collections have, the ones of a report, and the type tag.
Item(doc, type) ==
    [type |-> type, id |-> doc.id, userId |-> doc.userId, createdAt |-> doc.createdAt,
     status |-> IF type = "report" THEN doc.status ELSE "",
     testPlanId |-> IF type = "report" THEN doc.testPlanId ELSE 0]

ReadAnswer_PlanType(document, docType, user) ==
    IF ReadDecision(document, user) = "403"
    THEN Answer(403, "Unauthorized access")
    ELSE [Answer(200, "") EXCEPT !.type = "plan", !.data = <<Item(document, "plan")>>]

\* index.js 409-419: 403, or 200 with the type and the document.
ReadAnswer(document, docType, user) ==
    IF ReadDecision(document, user) = "403"
    THEN Answer(403, "Unauthorized access")
    ELSE [Answer(200, "") EXCEPT !.type = docType, !.data = <<Item(document, docType)>>]

\* index.js 380-394: the request is received and TestReport.findById
\* resolves; a report is answered for, otherwise TestCase.findById starts.
GetRequest(c, user, id) ==
    /\ call[c].pc = "idle"
    /\ LET document == FindById(reports, id, NoReport)
           cl == [NoCall EXCEPT !.op = "get", !.user = user, !.id = id]
       IN  IF document # NoReport
           THEN /\ call' = [call EXCEPT ![c] = Answered(cl)]
                /\ ans' = [ans EXCEPT ![c] = ReadAnswer(document, "report", user)]
           ELSE /\ call' = [call EXCEPT ![c] = [cl EXCEPT !.pc = "findPlan"]]
                /\ ans' = [ans EXCEPT ![c] = NoAnswer]
    /\ UNCHANGED <<nextId, clock, reports>>
    /\ UNCHANGED genVars
    /\ UNCHANGED fetchVars

\* index.js 392-419: TestCase.findById resolves.
GetPlanDone(c) ==
    /\ call[c].pc = "findPlan"
    /\ LET document == FindById(plans, call[c].id, NoPlan)
       IN  /\ call' = [call EXCEPT ![c] = Answered(call[c])]
           /\ ans' = [ans EXCEPT ![c] =
                        IF document = NoPlan
                        THEN Answer(404, "Test Plan or Report not found")
                        ELSE ReadAnswer(document, "plan", call[c].user)]
    /\ UNCHANGED <<nextId, clock, reports>>
    /\ UNCHANGED genVars
    /\ UNCHANGED fetchVars

\* The places of a sequence of documents, latest createdAt first; documents of
\* the same instant keep their order.
RECURSIVE SortedPlaces(_, _)
SortedPlaces(docs, left) ==
    IF left = {} THEN <<>>
    ELSE LET first == CHOOSE i \in left :
                         \A j \in left :
                             \/ docs[j].createdAt < docs[i].createdAt
                             \/ (docs[j].createdAt = docs[i].createdAt /\ i <= j)
         IN  <<first>> \o SortedPlaces(docs, left \ {first})

ByCreatedAtDesc_Unsorted(docs) == docs

\* .sort({createdAt: -1}) of a query (index.js 453, 489) and the sort of the
\* combined list (503).
ByCreatedAtDesc(docs) ==
    LET places == SortedPlaces(docs, 1..Len(docs))
    IN  [k \in 1..Len(docs) |-> docs[places[k]]]

Page_LimitThenSkip(docs, skip, limit) ==
    SubSeq(docs, skip + 1, IF limit < Len(docs) THEN limit ELSE Len(docs))

\* .limit(limit).skip(skip) of a query: whatever the order of the two calls,
\* the query skips first and limits what is left.  limit is positive.
Page(docs, skip, limit) ==
    SubSeq(docs, skip + 1, IF skip + limit < Len(docs) THEN skip + limit ELSE Len(docs))

\* index.js 431: a query parameter that is absent, and the defaults.
NoParam == -1
DefaultLimit == 100
DefaultSkip == 0
OrDefault(param, default) == IF param = NoParam THEN default ELSE param

LowerCase(ch) ==
    CASE ch = "D" -> "d" [] ch = "E" -> "e" [] ch = "G" -> "g" [] ch = "I" -> "i"
      [] ch = "U" -> "u" [] OTHER -> ch

\* index.js 442 and 469: new RegExp(search, 'i') matches str, for a search
\* of letters: str holds search somewhere, whatever the case of the letters.
SearchMatches(search, str) ==
    LET word == [k \in 1..Len(Chars(search)) |-> LowerCase(Chars(search)[k])]
        whole == [k \in 1..Len(Chars(str)) |-> LowerCase(Chars(str)[k])]
    IN  \E i \in 0..(Len(whole) - Len(word)) : SubSeq(whole, i + 1, i + Len(word)) = word

\* index.js 439-456: the plans of the user, of those docLink or appUrl
\* matches the search when there is one, latest first, the page asked for.
FindPlans(userId, search, skip, limit) ==
    Page(ByCreatedAtDesc(SelectSeq(plans,
            LAMBDA p : /\ p.userId = userId
                       /\ search # "" =>
                             SearchMatches(search, p.docLink) \/ SearchMatches(search, p.appUrl))),
         skip, limit)

\* index.js 478-484: the filter over the reports found, each with the plan
\* populate() put in its testPlanId, null when that plan is not stored.  No
\* operation of the model sets results, so it is not searched.
SearchedReports(found, search) ==
    SelectSeq(found,
        LAMBDA r : LET testPlanId == FindById(plans, r.testPlanId, NoPlan)
                   IN  /\ testPlanId # NoPlan
                       /\ \/ SearchMatches(search, testPlanId.docLink)
                          \/ SearchMatches(search, testPlanId.appUrl))

\* index.js 462-492: the reports of the user, of the status asked for when
\* one is, latest first, the page asked for; with a search, those of the
\* page that pass the filter.
FindReports(userId, status, search, skip, limit) ==
    LET found == Page(ByCreatedAtDesc(SelectSeq(reports,
                        LAMBDA r : r.userId = userId /\ (status = "" \/ r.status = status))),
                      skip, limit)
    IN  IF search # "" THEN SearchedReports(found, search) ELSE found

Tagged(docs, type) == [k \in 1..Len(docs) |-> Item(docs[k], type)]

\* index.js 498-512: the two results tagged, concatenated and sorted.
CombinedList(foundPlans, foundReports) ==
    ByCreatedAtDesc(Tagged(foundPlans, "plan") \o Tagged(foundReports, "report"))

ListAnswer(foundPlans, foundReports) ==
    [Answer(200, "") EXCEPT !.data = CombinedList(foundPlans, foundReports)]

\* index.js 428-457: the request is received; the first query the type asks
\* for starts, and with a type that is neither there is none to wait for.
ListRequest(c, user, type, status, search, limit, skip) ==
    /\ call[c].pc = "idle"
    /\ LET cl == [NoCall EXCEPT !.op = "list", !.user = user, !.type = type,
                                !.status = status, !.search = search,
                                !.limit = OrDefault(limit, DefaultLimit),
                                !.skip = OrDefault(skip, DefaultSkip)]
       IN  IF type = "" \/ type = "plan"
           THEN /\ call' = [call EXCEPT ![c] = [cl EXCEPT !.pc = "listPlans"]]
                /\ ans' = [ans EXCEPT ![c] = NoAnswer]
           ELSE IF type = "report"
           THEN /\ call' = [call EXCEPT ![c] = [cl EXCEPT !.pc = "listReports"]]
                /\ ans' = [ans EXCEPT ![c] = NoAnswer]
           ELSE /\ call' = [call EXCEPT ![c] = Answered(cl)]
                /\ ans' = [ans EXCEPT ![c] = ListAnswer(<<>>, <<>>)]
    /\ UNCHANGED <<nextId, clock, reports>>
    /\ UNCHANGED genVars
    /\ UNCHANGED fetchVars

\* index.js 452-461: TestCase.find resolves.
ListPlansDone(c) ==
    /\ call[c].pc = "listPlans"
    /\ LET found == FindPlans(call[c].user.id, call[c].search, call[c].skip, call[c].limit)
       IN  IF call[c].type = ""
           THEN /\ call' = [call EXCEPT ![c].pc = "listReports", ![c].plans = found]
                /\ UNCHANGED ans
           ELSE /\ call' = [call EXCEPT ![c] = Answered(call[c])]
                /\ ans' = [ans EXCEPT ![c] = ListAnswer(found, <<>>)]
    /\ UNCHANGED <<nextId, clock, reports>>
    /\ UNCHANGED genVars
    /\ UNCHANGED fetchVars

\* index.js 487-512: TestReport.find resolves and the list is sent.
ListReportsDone(c) ==
    /\ call[c].pc = "listReports"
    /\ LET found == FindReports(call[c].user.id, call[c].status, call[c].search,
                                call[c].skip, call[c].limit)
       IN  /\ call' = [call EXCEPT ![c] = Answered(call[c])]
           /\ ans' = [ans EXCEPT ![c] = ListAnswer(call[c].plans, found)]
    /\ UNCHANGED <<nextId, clock, reports>>
    /\ UNCHANGED genVars
    /\ UNCHANGED fetchVars

ReportStatuses == {"queued", "running", "completed", "failed"}

\* TestReport.js 14-18: a write of the status of a stored report through the
\* model, as the execution service the run endpoint leaves to be built
\* (index.js 355-363) would make it; the schema takes every value of the
\* enum, whatever the stored status is.
ReportStatusWrite(i, status) ==
    /\ i \in 1..Len(reports)
    /\ status \in ReportStatuses
    /\ reports[i].status # status
    /\ reports' = [reports EXCEPT ![i].status = status]
    /\ UNCHANGED <<nextId, clock, call, ans>>
    /\ UNCHANGED genVars
    /\ UNCHANGED fetchVars

\* The run, get and list endpoints over a database in which "u1" has
\* generated plan 1, run it as report 2 and generated plan 3, and the
\* administrator "u2" has generated plan 4.
StoredPlan(id, userId, createdAt) ==
    [id |-> id, userId |-> userId, docLink |-> "doc", appUrl |-> "app",
     modelUsed |-> "gemini-pro", plan |-> Payload("Jplan"), createdAt |-> createdAt]

Requesters == {[id |-> "u1", isAdmin |-> FALSE], [id |-> "u2", isAdmin |-> TRUE]}
RunIds == {1, 4, 9}
GetIds == {1, 2, 4, 5, 9}
ListTypes == {"", "plan", "report"}
ListStatuses == {"", "completed"}

InitTests ==
    /\ today = 1
    /\ users = [u \in UserIds |-> IF u = "u0" THEN NoUser ELSE NewUser]
    /\ plans = <<StoredPlan(1, "u1", 1), StoredPlan(3, "u1", 3), StoredPlan(4, "u2", 4)>>
    /\ nextId = 5
    /\ req = [r \in Slots |-> NoRequest]
    /\ res = [r \in Slots |-> NoResponse]
    /\ succeeded = 2
    /\ admitted = [u \in UserIds |-> 0]
    /\ overlap = [u \in UserIds |-> FALSE]
    /\ text = <<>>
    /\ snippet = NotRun
    /\ clock = 5
    /\ reports = <<NewTestReport(StoredPlan(1, "u1", 1), [id |-> "u1", isAdmin |-> FALSE], 2, 2)>>
    /\ call = [c \in Calls |-> NoCall]
    /\ ans = [c \in Calls |-> NoAnswer]
    /\ fetch = NoFetch

NextTests ==
    \/ \E c \in Calls, user \in Requesters, id \in RunIds : RunRequest(c, user, id)
    \/ \E c \in Calls, ok \in BOOLEAN : RunSaveDone(c, ok)
    \/ \E c \in Calls, user \in Requesters, id \in GetIds : GetRequest(c, user, id)
    \/ \E c \in Calls : GetPlanDone(c)
    \/ \E c \in Calls, user \in Requesters, type \in ListTypes, status \in ListStatuses :
          ListRequest(c, user, type, status, "", NoParam, NoParam)
    \/ \E c \in Calls : ListPlansDone(c)
    \/ \E c \in Calls : ListReportsDone(c)
    \/ \E i \in 1..Len(reports) : ReportStatusWrite(i, "completed")

SpecTests == InitTests /\ [][NextTests]_vars

\* The life of the reports: runs, and writes of every status.
NextLifecycle ==
    \/ \E c \in Calls, user \in Requesters, id \in RunIds : RunRequest(c, user, id)
    \/ \E c \in Calls, ok \in BOOLEAN : RunSaveDone(c, ok)
    \/ \E i \in 1..Len(reports), status \in ReportStatuses : ReportStatusWrite(i, status)

SpecLifecycle == InitTests /\ [][NextLifecycle]_vars

\* The list endpoint under every page and search, over a database in which
\* "u1" has generated plans 1, 3 and 5, the second from the documentation
\* "guide", and has run each of them once, as reports 2, 4 and 6.
Searches == {"", "GUIDE", "Do"}
Limits == {NoParam, 1, 2}
Skips == {NoParam, 1, 2}

InitList ==
    /\ today = 1
    /\ users = [u \in UserIds |-> IF u = "u0" THEN NoUser ELSE NewUser]
    /\ plans = <<StoredPlan(1, "u1", 1),
                 [StoredPlan(3, "u1", 3) EXCEPT !.docLink = "guide"],
                 StoredPlan(5, "u1", 5)>>
    /\ nextId = 7
    /\ req = [r \in Slots |-> NoRequest]
    /\ res = [r \in Slots |-> NoResponse]
    /\ succeeded = 3
    /\ admitted = [u \in UserIds |-> 0]
    /\ overlap = [u \in UserIds |-> FALSE]
    /\ text = <<>>
    /\ snippet = NotRun
    /\ clock = 7
    /\ reports = [k \in 1..3 |->
                    NewTestReport(StoredPlan(2 * k - 1, "u1", 2 * k - 1),
                                  [id |-> "u1", isAdmin |-> FALSE], 2 * k, 2 * k)]
    /\ call = [c \in Calls |-> NoCall]
    /\ ans = [c \in Calls |-> NoAnswer]
    /\ fetch = NoFetch

NextList ==
    \/ \E type \in ListTypes, search \in Searches, limit \in Limits, skip \in Skips :
          ListRequest(1, [id |-> "u1", isAdmin |-> FALSE], type, "", search, limit, skip)
    \/ ListPlansDone(1)
    \/ ListReportsDone(1)

SpecList == InitList /\ [][NextList]_vars

\* The generation pipeline under every model a request names, with a page
\* that is fetched, a model that answers with a plan and a save that succeeds.
Models == {NoModel, "gemini-flash", "gpt-4"}

NextModels ==
    \/ \E r \in Slots, uid \in {"u1", "u2"}, model \in Models :
          CheckAiLimit(r, uid, "doc", "app", model)
    \/ \E r \in Slots : SaveUserDone(r)
    \/ \E r \in Slots : FetchDone(r, "page text")
    \/ \E r \in Slots : ModelDone(r, [error |-> FALSE, text |-> <<"Jplan">>])
    \/ \E r \in Slots : SavePlanDone(r, TRUE)

SpecModels == InitGen /\ [][NextModels]_vars

\* The four operations of the core together, from an empty database: "u1",
\* who has made two requests today, generates plans, runs plan 1, and reads
\* by id and by list while the writes go on.
InitStore ==
    /\ today = 1
    /\ users = [u \in UserIds |->
                  IF u = "u0" THEN NoUser
                  ELSE [NewUser EXCEPT !.aiRequestCount = 2, !.lastAiRequestTime = 1]]
    /\ plans = <<>>
    /\ nextId = 1
    /\ req = [r \in Slots |-> NoRequest]
    /\ res = [r \in Slots |-> NoResponse]
    /\ succeeded = 0
    /\ admitted = [u \in UserIds |-> IF u = "u0" THEN 0 ELSE 2]
    /\ overlap = [u \in UserIds |-> FALSE]
    /\ text = <<>>
    /\ snippet = NotRun
    /\ clock = MaxClock - 1
    /\ reports = <<>>
    /\ call = [c \in Calls |-> NoCall]
    /\ ans = [c \in Calls |-> NoAnswer]
    /\ fetch = NoFetch

NextStore ==
    \/ \E r \in Slots : CheckAiLimit(r, "u1", "doc", "app", "gemini-pro")
    \/ \E r \in Slots : SaveUserDone(r)
    \/ \E r \in Slots : FetchDone(r, "page text")
    \/ \E r \in Slots : ModelDone(r, [error |-> FALSE, text |-> <<"Jplan">>])
    \/ \E r \in Slots : SavePlanDone(r, TRUE)
    \/ RunRequest(1, [id |-> "u1", isAdmin |-> FALSE], 1)
    \/ RunSaveDone(1, TRUE)
    \/ \E c \in Calls, id \in {1, 2} :
          GetRequest(c, [id |-> "u1", isAdmin |-> FALSE], id)
    \/ \E c \in Calls : GetPlanDone(c)
    \/ ListRequest(1, [id |-> "u1", isAdmin |-> FALSE], "", "", "", NoParam, NoParam)
    \/ ListPlansDone(1)
    \/ ListReportsDone(1)

SpecStore == InitStore /\ [][NextStore]_vars

(***************************************************************************)
(* fetchPageContent, server/search.js 26-97, called by the generation      *)
(* handler at index.js 190.  The call is cut at its two awaits: fetch(),   *)
(* which resolves when the response headers are in, and response.text(),   *)
(* which resolves when the body is in.  Time is counted in ticks since the *)
(* call; a pending timer fires when its delay has passed.  A content type  *)
(* is the sequence of the words between its separators.                    *)
(***************************************************************************)

\* search.js 15-16, in ticks and in bytes.
TIMEOUT == 2
MAX_FILE_SIZE == 1048576

\* search.js 58: contentType.includes('application/pdf')
IncludesPdf(contentType) ==
    \E i \in 1..(Len(contentType) - 1) :
        contentType[i] = "application" /\ contentType[i + 1] = "pdf"

\* search.js 59-62: contentType.includes(word)
Includes(contentType, word) == \E i \in 1..Len(contentType) : contentType[i] = word

\* search.js 55-66: the declared type is one the fetcher does not read.  An
\* absent header is the empty sequence.
NonTextContent(contentType) ==
    /\ Len(contentType) > 0
    /\ \/ IncludesPdf(contentType)
       \/ \E word \in {"audio", "video", "image", "binary"} : Includes(contentType, word)

TooLarge_Unchecked(contentLength) == FALSE

\* search.js 68-72: the declared length is above the limit.
TooLarge(contentLength) == contentLength # NoLength /\ contentLength > MAX_FILE_SIZE

\* search.js 50-72: whether the body of the response is read.
ReadsBody(response) ==
    /\ response.ok
    /\ ~NonTextContent(response.contentType)
    /\ ~TooLarge(response.contentLength)

\* search.js 75-88: the text of the page body without markup, trimmed and cut
\* to MAX_PAGE_CONTENT_LENGTH.  A body is "" or "html".
PageText(html) == IF html = "" THEN "" ELSE "page text"

Pending == {"headers", "body"}

\* return from fetchPageContent
Returned(result, error) ==
    [fetch EXCEPT !.pc = "returned", !.timer = FALSE, !.result = result, !.error = error]

\* search.js 30 and 38-46: the timer fires, controller.abort() rejects the
\* pending fetch() with an AbortError, and the inner catch returns null.
Timeout ==
    /\ fetch.pc = "headers"
    /\ fetch.timer
    /\ fetch.elapsed >= TIMEOUT
    /\ fetch' = Returned(Null, "abort")
    /\ UNCHANGED <<genVars, nextId, testsVars>>

\* search.js 38-46: fetch() rejects with a network error.
FetchFails ==
    /\ fetch.pc = "headers"
    /\ fetch' = Returned(Null, "network")
    /\ UNCHANGED <<genVars, nextId, testsVars>>

\* search.js 33-74: the headers arrive; the timer is cleared, the status, the
\* declared type and the declared length are looked at, and either null is
\* returned or response.text() starts.
HeadersArrive(response) ==
    /\ fetch.pc = "headers"
    /\ fetch' = IF ReadsBody(response)
                THEN [fetch EXCEPT !.pc = "body", !.timer = FALSE,
                                   !.response = response, !.bodyRead = TRUE]
                ELSE [Returned(Null, "") EXCEPT !.response = response]
    /\ UNCHANGED <<genVars, nextId, testsVars>>

\* search.js 74-88: the body is in and its text is returned.
BodyArrives(html) ==
    /\ fetch.pc = "body"
    /\ fetch' = Returned(PageText(html), "")
    /\ UNCHANGED <<genVars, nextId, testsVars>>

\* search.js 74 and 89-96: response.text() rejects and the outer catch
\* returns null.
BodyFails ==
    /\ fetch.pc = "body"
    /\ fetch' = Returned(Null, "body")
    /\ UNCHANGED <<genVars, nextId, testsVars>>

\* Time passes while the call is pending; a pending timer is not overrun.
Tick ==
    /\ fetch.pc \in Pending
    /\ fetch.elapsed < MaxElapsed
    /\ fetch.timer => fetch.elapsed < TIMEOUT
    /\ fetch' = [fetch EXCEPT !.elapsed = @ + 1]
    /\ UNCHANGED <<genVars, nextId, testsVars>>

\* index.js 190: the handler's await of fetchPageContent resolves.
FetchReturns(r) ==
    /\ fetch.pc = "returned"
    /\ FetchDone(r, fetch.result)

ContentTypes ==
    {<<>>, <<"text", "html">>, <<"application", "pdf">>, <<"audio", "mpeg">>,
     <<"video", "mp4">>, <<"image", "png">>, <<"binary", "octet-stream">>,
     <<"application", "octet-stream">>}
ContentLengths == {NoLength, MAX_FILE_SIZE, MAX_FILE_SIZE + 1}
Responses ==
    [ok : BOOLEAN, contentType : ContentTypes, contentLength : ContentLengths]

\* A limited user's request has passed the limiter and the handler has
\* called fetchPageContent, which waits for fetch().
InitFetch ==
    /\ today = 1
    /\ users = [u \in UserIds |->
                  IF u = "u0" THEN NoUser
                  ELSE [NewUser EXCEPT !.aiRequestCount = 1, !.lastAiRequestTime = 1]]
    /\ plans = <<>>
    /\ nextId = 1
    /\ req = [r \in Slots |->
                IF r = 1
                THEN HandlerStart([NoRequest EXCEPT !.userId = "u1", !.docLink = "doc",
                                                    !.appUrl = "app",
                                                    !.model = "gemini-pro"]).req
                ELSE NoRequest]
    /\ res = [r \in Slots |-> NoResponse]
    /\ succeeded = 0
    /\ admitted = [u \in UserIds |-> IF u = "u1" THEN 1 ELSE 0]
    /\ overlap = [u \in UserIds |-> FALSE]
    /\ text = <<>>
    /\ snippet = NotRun
    /\ clock = 1
    /\ reports = <<>>
    /\ call = [c \in Calls |-> NoCall]
    /\ ans = [c \in Calls |-> NoAnswer]
    /\ fetch = [NoFetch EXCEPT !.pc = "headers", !.timer = TRUE]

NextFetch ==
    \/ Timeout
    \/ FetchFails
    \/ \E response \in Responses : HeadersArrive(response)
    \/ \E html \in {"", "html"} : BodyArrives(html)
    \/ BodyFails
    \/ Tick
    \/ FetchReturns(1)

SpecFetch == InitFetch /\ [][NextFetch]_vars

(***************************************************************************)
(* Properties.                                                             *)
(***************************************************************************)
HandlerPcs == {"fetch", "model", "savePlan"}

\* Request slot r receives a request of user u in this step.
Received(r, u) ==
    /\ req[r].pc = "idle"
    /\ req'[r].userId = u
    /\ req'[r] # req[r] \/ res'[r] # res[r]

\* The generation handler has been entered for the request of slot r in this
\* step: it is waiting for the fetch, or it has answered 400.
HandlerEntered(r) ==
    /\ req[r].pc \notin HandlerPcs
    /\ req'[r].pc = "fetch" \/ (req'[r].pc = "idle" /\ res'[r].status = 400)

\* The limiter has turned the request of slot r away in this step.
TurnedAway(r) ==
    /\ req[r].pc \notin HandlerPcs
    /\ req'[r].pc = "idle"
    /\ res'[r].status = 429

\* C1: a user who is neither active nor trialing and whose requests do not
\* overlap in the limiter is let through while fewer than 3 of the requests of
\* the day have been let through, is answered 429 once 3 have been, and the
\* first request let through on a day leaves the stored count at exactly 1.
C1_DailyQuota ==
    [][\A r \in Slots, u \in UserIds :
        /\ (Received(r, u) /\ IsLimited(users[u]) /\ ~overlap'[u]) =>
              /\ admitted[u] < DailyLimit => req'[r].pc = "saveUser"
              /\ admitted[u] >= DailyLimit => TurnedAway(r)
        /\ (req[r].pc = "saveUser" /\ req[r].userId = u /\ ~overlap[u]
              /\ req'[r] # req[r]) =>
              /\ HandlerEntered(r)
              /\ (req[r].now = today /\ admitted[u] = 0) =>
                    /\ users'[u].aiRequestCount = 1
                    /\ users'[u].lastAiRequestTime = today
      ]_vars

\* A new day has begun after a day on which the user was turned away, and the
\* first request of the new day has been let through with the count at 1.
C1_Witness ==
    /\ today = 2
    /\ ~overlap["u1"]
    /\ admitted["u1"] = 1
    /\ users["u1"].aiRequestCount = 1
    /\ users["u1"].lastAiRequestTime = 2
    /\ \E r \in Slots : req[r].userId = "u1" /\ req[r].pc = "idle" /\ res[r].status = 429
    /\ \E r \in Slots : req[r].userId = "u1" /\ req[r].pc = "fetch"

\* C2: nothing guards the read-modify-write of the counter: a request that
\* has read the counter below the limit is let through when its save resolves
\* and its save overwrites the stored counter with the value it read plus one,
\* whatever other requests have stored in between.
C2_UnguardedCounter ==
    [][\A r \in Slots :
        (req[r].pc = "saveUser" /\ req'[r] # req[r]) =>
            /\ HandlerEntered(r)
            /\ users'[req[r].userId].aiRequestCount = req[r].user.aiRequestCount
      ]_vars

\* Two requests have read the same counter value and more than 3 requests of
\* the user have been let through on one day.
C2_Witness ==
    /\ admitted["u1"] > DailyLimit
    /\ users["u1"].aiRequestCount = DailyLimit
    /\ overlap["u1"]
    /\ \A r \in Slots : req[r].userId = "u1" /\ req[r].pc = "fetch"

\* C3: a request whose user record cannot be found never enters the
\* generation handler.
C3_FailClosed ==
    \A r \in Slots : req[r].pc \in HandlerPcs => users[req[r].userId].exists

\* C4: a request of a user who is active or trialing enters the generation
\* handler whatever count and last request time are stored, and the stored
\* record is left as it is.
C4_SubscribedExempt ==
    [][\A r \in Slots, u \in UserIds :
        (Received(r, u) /\ users[u].exists
            /\ users[u].subscriptionStatus \in {"active", "trialing"}) =>
            HandlerEntered(r) /\ users' = users
      ]_vars

\* A trialing user whose count is at the limit today is waiting for the fetch.
C4_Witness ==
    \E r \in Slots :
        /\ req[r].pc = "fetch"
        /\ req[r].userId = "u1"
        /\ users["u1"].subscriptionStatus = "trialing"
        /\ users["u1"].aiRequestCount >= DailyLimit
        /\ users["u1"].lastAiRequestTime = today

\* C5: the request of a limited user enters the generation handler in the
\* step in which its save resolves, with the count and the last request time
\* it computed in the stored record, and no step the handler takes afterwards
\* (400, fetch, model call, parsing, saving the plan) writes the user record.
C5_QuotaConsumed ==
    [][\A r \in Slots :
        /\ (req[r].pc = "saveUser" /\ req'[r] # req[r]) =>
              /\ HandlerEntered(r)
              /\ \A f \in req[r].paths : users'[req[r].userId][f] = req[r].user[f]
              /\ users'[req[r].userId].aiRequestCount > 0
        /\ (req[r].pc \in HandlerPcs /\ req'[r] # req[r]) => users' = users
      ]_vars

\* The third requests of the day of "u1" and of "u2" were let through; one
\* ended when saving the plan failed, the other with 400, and both counts are
\* at 3.
C5_Witness ==
    /\ users["u1"].aiRequestCount = 3
    /\ admitted["u1"] = 3
    /\ \E r \in Slots :
          /\ req[r].userId = "u1"
          /\ req[r].pc = "idle"
          /\ res[r].status = 500
          /\ res[r].error = "save failed"
    /\ \E r \in Slots :
          /\ req[r].userId = "u2"
          /\ req[r].pc = "idle"
          /\ res[r].status = 400
          /\ users["u2"].aiRequestCount = 3

\* C6: when the fetch of docLink throws or yields null, the request sends no
\* response at that point and goes on to the model call, with a prompt whose
\* documentation section is the fallback marker.
C6_FetchFallback ==
    [][\A r \in Slots :
        (req[r].pc = "fetch" /\ req'[r] # req[r]) =>
            /\ req'[r].pc = "model"
            /\ res'[r].status = 0
            /\ req'[r].docContent = Null => req'[r].prompt.doc = FallbackMarker
      ]_vars

\* A request whose fetch gave nothing is waiting for the model with the
\* marker in its prompt, while another one has the page text in its prompt.
C6_Witness ==
    /\ \E r \in Slots :
          /\ req[r].pc = "model"
          /\ req[r].docContent = Null
          /\ req[r].prompt.doc = FallbackMarker
          /\ res[r].status = 0
    /\ \E r \in Slots :
          /\ req[r].pc = "model"
          /\ req[r].prompt.doc = "page text"

\* A JSON array of cases, each with a string name and a non-empty steps array
\* whose steps each have a string action.
WellFormedPlan(v) ==
    /\ v.t = "array"
    /\ Len(v.items) > 0
    /\ \A i \in 1..Len(v.items) :
          LET tc == v.items[i]
          IN  /\ tc.t = "object"
              /\ tc.name = "string"
              /\ tc.steps.t = "array"
              /\ Len(tc.steps.items) > 0
              /\ \A j \in 1..Len(tc.steps.items) :
                    /\ tc.steps.items[j].t = "object"
                    /\ tc.steps.items[j].action = "string"

\* The array the text of the model parses to.
ParsedArray(aiResponse) == JsonParse(extractCodeSnippet(aiResponse)).value

\* The text of the model is a well-formed plan.
WellFormed(aiResponse) ==
    /\ JsonParse(extractCodeSnippet(aiResponse)).ok
    /\ WellFormedPlan(ParsedArray(aiResponse))

\* The request of slot r ends in this step with its plan stored: the new
\* document holds the parsed array and the requester as owner, and 201
\* carries the id of the document and the same array.
StoredAndAnswered(r) ==
    /\ res'[r].status = 201
    /\ Len(plans') = Len(plans) + 1
    /\ SubSeq(plans', 1, Len(plans)) = plans
    /\ LET doc == plans'[Len(plans')]
       IN  /\ doc.plan = ParsedArray(req[r].aiResponse)
           /\ doc.userId = req[r].userId
           /\ doc.docLink = req[r].docLink
           /\ doc.appUrl = req[r].appUrl
           /\ res'[r].testPlanId = doc.id
           /\ res'[r].generatedPlan = doc.plan

\* A request that ends at the model call did not get a well-formed plan.
WellFormedGoesOn(r) ==
    (req[r].pc = "model" /\ req'[r].pc = "idle") => ~WellFormed(res'[r].aiResponse)

\* C7 as stated: a request let into the handler with docLink and appUrl whose
\* model returns a well-formed plan succeeds, the parsed array is stored with
\* the requester as owner and the response carries the new id and the array.
C7_WellFormedSucceeds ==
    [][\A r \in Slots :
        /\ WellFormedGoesOn(r)
        /\ (req[r].pc = "savePlan" /\ WellFormed(req[r].aiResponse)
              /\ req'[r] # req[r]) => StoredAndAnswered(r)
      ]_vars

\* C7, amended: such a request succeeds in that way unless saving the plan
\* fails; then it is answered 500 and nothing is stored.
C7_WellFormedSucceedsUnlessSaveFails ==
    [][\A r \in Slots :
        /\ WellFormedGoesOn(r)
        /\ (req[r].pc = "savePlan" /\ WellFormed(req[r].aiResponse)
              /\ req'[r] # req[r]) =>
              \/ StoredAndAnswered(r)
              \/ /\ res'[r].status = 500
                 /\ res'[r].error = "save failed"
                 /\ plans' = plans
      ]_vars

\* The plan that was fenced inside prose is stored for "u1" and 201 carries
\* it, and another request has ended with 500 when saving its plan failed.
C7_Witness ==
    /\ \E r \in Slots, i \in 1..Len(plans) :
          /\ res[r].status = 201
          /\ res[r].testPlanId = plans[i].id
          /\ res[r].generatedPlan = Payload("Jplan2")
          /\ plans[i].plan = Payload("Jplan2")
          /\ plans[i].userId = "u1"
          /\ req[r].userId = "u1"
    /\ \E r \in Slots : res[r].status = 500 /\ res[r].error = "save failed"

\* C8: there are as many stored plans as requests answered 201, their ids are
\* distinct, and a step stores a plan only for a request it answers 201:
\* requests that end otherwise store none and nothing merges two plans of the
\* same docLink and appUrl.
C8_OnePlanPerSuccess ==
    [][/\ Len(plans') = succeeded'
       /\ \A i, j \in 1..Len(plans') : plans'[i].id = plans'[j].id => i = j
       /\ \A r \in Slots :
             (req[r].pc # "idle" /\ req'[r].pc = "idle") =>
                 IF res'[r].status = 201
                 THEN Len(plans') = Len(plans) + 1
                 ELSE plans' = plans
      ]_vars

\* Two requests with the same docLink and appUrl that got the same plan from
\* the model have both succeeded, and two documents are stored.
C8_Witness ==
    /\ Len(plans) = 2
    /\ succeeded = 2
    /\ plans[1].id # plans[2].id
    /\ plans[1].docLink = plans[2].docLink
    /\ plans[1].appUrl = plans[2].appUrl
    /\ plans[1].plan = plans[2].plan
    /\ \A r \in Slots : res[r].status = 201

\* The text does not parse as JSON, or what it parses to is not an array, is
\* an empty array, or has a case without a string name or without a steps
\* array.
Malformed(aiResponse) ==
    LET parsed == JsonParse(extractCodeSnippet(aiResponse))
        v == parsed.value
    IN  \/ ~parsed.ok
        \/ v.t # "array"
        \/ Len(v.items) = 0
        \/ \E i \in 1..Len(v.items) :
              \/ v.items[i].t # "object"
              \/ v.items[i].name # "string"
              \/ v.items[i].steps.t # "array"

MalformedOutput == "Failed to generate valid test plan from AI."

\* C9: when the text the model returned does not parse or fails the
\* plan-level validation, the request ends in that step with the 500 response
\* of a malformed output, which carries that text unchanged as rawAiResponse,
\* and no plan is constructed or stored for it.
C9_MalformedOutput ==
    [][\A r \in Slots :
        /\ (req[r].pc = "model" /\ req'[r].pc = "savePlan") =>
              ~Malformed(req'[r].aiResponse)
        /\ (req[r].pc = "model" /\ req'[r].pc = "idle"
              /\ Len(res'[r].aiResponse) > 0) =>
              /\ res'[r].status = 500
              /\ res'[r].error = MalformedOutput
              /\ res'[r].rawAiResponse = res'[r].aiResponse
              /\ res'[r].testPlanId = 0
              /\ plans' = plans /\ nextId' = nextId
      ]_vars

\* Malformed outputs of each kind have been answered: one that is fenced, so
\* that the raw text differs from what was parsed, and one that does not parse.
C9_Witness ==
    /\ plans = <<>>
    /\ \E r \in Slots :
          /\ res[r].status = 500
          /\ res[r].error = MalformedOutput
          /\ res[r].rawAiResponse = Fenced("Jempty")
          /\ extractCodeSnippet(res[r].rawAiResponse) # res[r].rawAiResponse
    /\ \E r \in Slots :
          /\ res[r].status = 500
          /\ res[r].error = MalformedOutput
          /\ res[r].rawAiResponse = <<"L", "Jplan">>

\* The places of the fences of the text, and whether it has a fenced block:
\* an opening fence and a closing one with JSON source between them.
FencesOf(t) == {i \in 1..Len(t) : t[i] = "F"}
HasFencedBlock(t) ==
    /\ Cardinality(FencesOf(t)) >= 2
    /\ LET open == Min(FencesOf(t))
           close == Min(FencesOf(t) \ {open})
       IN  \E i \in (open + 1)..(close - 1) : t[i] \in PayloadNames

\* s is the interior of the first fenced block of t: what stands between the
\* first two fences, without the language tag and the line break that follow
\* the opening fence and without the line break before the closing fence.
IsInterior(s, t) ==
    LET open == Min(FencesOf(t))
        close == Min(FencesOf(t) \ {open})
    IN  \E a \in (open + 1)..close, b \in (open)..(close - 1) :
            /\ s = SubSeq(t, a, b)
            /\ \A i \in (open + 1)..(a - 1) : t[i] \in {"L", "N", "R"}
            /\ \A i \in (b + 1)..(close - 1) : t[i] \in {"N", "R"}

\* C10: for a text with a fenced block the extractor returns the interior of
\* the first block and nothing of what surrounds it; for a text without a
\* fence it returns the text as it is.
C10_FenceInterior ==
    snippet # NotRun =>
        IF HasFencedBlock(text)
        THEN IsInterior(snippet, text)
        ELSE FencesOf(text) = {} => snippet = text

\* The value is an array with at least one element.
NonEmptyArray(v) == v.t = "array" /\ Len(v.items) > 0

\* C11: a model output whose extracted JSON value is not an array or is an
\* empty array never gets as far as a plan document: no request waits for
\* the save of such a plan, no response hands one out, and the plan field of
\* every stored plan is a non-empty array.
C11_NonEmptyArrayOnly ==
    /\ \A r \in Slots :
          req[r].pc = "savePlan" =>
              /\ NonEmptyArray(ParsedArray(req[r].aiResponse))
              /\ NonEmptyArray(req[r].plan)
    /\ \A r \in Slots : res[r].status = 201 => NonEmptyArray(res[r].generatedPlan)
    /\ \A i \in 1..Len(plans) : NonEmptyArray(plans[i].plan)
    /\ \A r \in Slots :
          (res[r].error = MalformedOutput /\ ~NonEmptyArray(ParsedArray(res[r].aiResponse)))
              => res[r].status = 500 /\ res[r].testPlanId = 0

\* A JSON object and a fenced empty array have both been answered with the
\* error, and nothing is stored.
C11_Witness ==
    /\ plans = <<>>
    /\ \E r \in Slots :
          /\ res[r].status = 500
          /\ res[r].aiResponse = <<"Jobject">>
          /\ JsonParse(extractCodeSnippet(res[r].aiResponse)).ok
    /\ \E r \in Slots :
          /\ res[r].status = 500
          /\ res[r].aiResponse = Fenced("Jempty")
          /\ ParsedArray(res[r].aiResponse) = Array(<<>>)

\* C12: every case of every stored plan has a string name and a steps array
\* with at least one step; a plan with a case that lacks one of them is
\* rejected.
C12_NonEmptySteps ==
    \A i \in 1..Len(plans) :
        \A j \in 1..Len(plans[i].plan.items) :
            LET tc == plans[i].plan.items[j]
            IN  /\ tc.name = "string"
                /\ tc.steps.t = "array"
                /\ Len(tc.steps.items) > 0

\* Slot c receives a run, get or list request in this step.
Arrives(c, op) ==
    /\ call[c].pc = "idle"
    /\ call'[c].op = op
    /\ call'[c] # call[c] \/ ans'[c] # ans[c]

\* Slot c sends its response in this step.
Answers(c) ==
    /\ ans'[c].status # 0
    /\ call'[c].pc = "idle"
    /\ call'[c] # call[c] \/ ans'[c] # ans[c]

\* The stored plans with that id.
PlansWithId(id) == {i \in 1..Len(plans) : plans[i].id = id}
ReportsWithId(id) == {i \in 1..Len(reports) : reports[i].id = id}

\* The user may act on a document of that owner.
Permitted(user, ownerId) == user.id = ownerId \/ user.isAdmin

\* C13: a run request with an id no stored plan has is answered 404, whoever
\* asks; one for a stored plan by a requester who is neither its owner nor an
\* administrator is answered 403; the owner and an administrator are
\* accepted: their report is constructed and its save begins.
C13_RunAccess ==
    [][\A c \in Calls :
        Arrives(c, "run") =>
            LET id == call'[c].id
                user == call'[c].user
            IN  /\ PlansWithId(id) = {} => ans'[c].status = 404
                /\ \A i \in PlansWithId(id) :
                      IF Permitted(user, plans[i].userId)
                      THEN /\ call'[c].pc = "saveReport"
                           /\ ans'[c].status = 0
                           /\ call'[c].doc.testPlanId = id
                      ELSE ans'[c].status = 403
      ]_vars

\* "u1" has been answered 403 for the plan of "u2", and the administrator
\* "u2" is accepted for a plan of "u1".
C13_Witness ==
    /\ \E c \in Calls :
          /\ call[c].op = "run" /\ call[c].user.id = "u1" /\ call[c].id = 4
          /\ ans[c].status = 403
    /\ \E c \in Calls :
          /\ call[c].op = "run" /\ call[c].user.id = "u2" /\ call[c].id = 1
          /\ call[c].pc = "saveReport"

\* C14: the userId of every stored report is the userId of the plan it
\* refers to.
C14_ReportOwnerIsPlanOwner ==
    \A i \in 1..Len(reports) :
        \A j \in PlansWithId(reports[i].testPlanId) :
            reports[i].userId = plans[j].userId

\* C15: a report comes into the collection only in the step in which the save
\* of an accepted run request resolves; it is queued, has no endTime and no
\* results, and that step answers 202 with its id and the status queued.
\* Every 202 of a run request is such a step.
C15_CreatedQueued ==
    [][/\ Len(reports') # Len(reports) =>
             /\ Len(reports') = Len(reports) + 1
             /\ LET new == reports'[Len(reports')]
                IN  /\ new.status = "queued"
                    /\ new.endTime = 0
                    /\ new.results = Null
                    /\ \E c \in Calls :
                          /\ call[c].op = "run" /\ call[c].pc = "saveReport"
                          /\ Answers(c)
                          /\ ans'[c].status = 202
                          /\ ans'[c].runId = new.id
                          /\ ans'[c].runStatus = "queued"
                          /\ ans'[c].testPlanId = new.testPlanId
                          /\ \E j \in PlansWithId(call[c].id) :
                                /\ new.testPlanId = plans[j].id
                                /\ Permitted(call[c].user, plans[j].userId)
       /\ \A c \in Calls :
             (Answers(c) /\ ans'[c].status = 202) => Len(reports') = Len(reports) + 1
      ]_vars

\* A run has been answered 202 with the status queued and its report is
\* stored, queued, while the first report of the database is completed.
C15_Witness ==
    \E c \in Calls, i \in 1..Len(reports) :
        /\ ans[c].status = 202
        /\ ans[c].runStatus = "queued"
        /\ ans[c].runId = reports[i].id
        /\ reports[i].status = "queued"
        /\ reports[i].endTime = 0
        /\ reports[1].status = "completed"

TerminalStatuses == {"completed", "failed"}

\* C16: the status of a report that is completed or failed is never changed
\* again.
C16_TerminalIsFinal ==
    [][\A i \in 1..Len(reports) :
        reports[i].status \in TerminalStatuses => reports'[i].status = reports[i].status
      ]_vars

\* C17: a run or get request that is answered 404 or 403 has written
\* nothing: the step that answers leaves the plans, the reports and the users
\* as they are and takes no id, and the request never had a save under way.
C17_RejectedLeavesNoTrace ==
    [][\A c \in Calls :
        (Answers(c) /\ call'[c].op \in {"run", "get"} /\ ans'[c].status \in {403, 404}) =>
            /\ plans' = plans
            /\ reports' = reports
            /\ users' = users
            /\ nextId' = nextId
            /\ call[c].pc \in {"idle", "findPlan"}
      ]_vars

\* A run request has been answered 403 and a get request 404, and the
\* database is as it was.
C17_Witness ==
    /\ \E c \in Calls : call[c].op = "run" /\ ans[c].status = 403
    /\ \E c \in Calls : call[c].op = "get" /\ ans[c].status = 404
    /\ Len(reports) = 1
    /\ Len(plans) = 3
    /\ nextId = 5

\* C18: every document a 200 of get-by-id or of list hands to a requester who
\* is not an administrator has the requester as userId, and get-by-id for a
\* stored report or plan of another user is answered 403 with no data.
C18_ReadOwnOnly ==
    [][\A c \in Calls :
        (Answers(c) /\ call'[c].op \in {"get", "list"} /\ ~call'[c].user.isAdmin) =>
            LET user == call'[c].user
                id == call'[c].id
                others ==
                    IF call[c].pc = "idle"
                    THEN {i \in ReportsWithId(id) : reports[i].userId # user.id}
                    ELSE {}
                otherPlans ==
                    IF call[c].pc = "findPlan"
                    THEN {i \in PlansWithId(id) : plans[i].userId # user.id}
                    ELSE {}
            IN  /\ ans'[c].status = 200 =>
                      \A k \in 1..Len(ans'[c].data) : ans'[c].data[k].userId = user.id
                /\ (call'[c].op = "get" /\ (others # {} \/ otherPlans # {})) =>
                      ans'[c].status = 403 /\ ans'[c].data = <<>>
      ]_vars

\* "u1" has been refused the report the administrator made of plan 1, and
\* has listed plans and reports of its own.
C18_Witness ==
    /\ \E c \in Calls, i \in 1..Len(reports) :
          /\ call[c].op = "get" /\ call[c].user.id = "u1"
          /\ call[c].id = reports[i].id
          /\ reports[i].userId = "u2"
          /\ ans[c].status = 403
          /\ ans[c].data = <<>>
    /\ \E c \in Calls :
          /\ call[c].op = "list" /\ call[c].user.id = "u1"
          /\ ans[c].status = 200
          /\ Len(ans[c].data) = 3

\* C19: get-by-id looks among the reports first: when a report has the id the
\* request is answered from it at once, with the type report when the
\* requester may read it; the plans are looked at only when no report has the
\* id, the type is plan when a plan has it and the requester may read it, and
\* the answer is 404 when no plan has it either.
C19_ReportFirst ==
    [][\A c \in Calls :
        /\ Arrives(c, "get") =>
              LET id == call'[c].id
                  user == call'[c].user
              IN  /\ ReportsWithId(id) = {} => call'[c].pc = "findPlan" /\ ans'[c].status = 0
                  /\ \A i \in ReportsWithId(id) :
                        /\ Answers(c)
                        /\ Permitted(user, reports[i].userId) =>
                              /\ ans'[c].status = 200
                              /\ ans'[c].type = "report"
                              /\ ans'[c].data[1].id = id
        /\ (call[c].pc = "findPlan" /\ call'[c] # call[c]) =>
              LET id == call[c].id
                  user == call[c].user
              IN  /\ Answers(c)
                  /\ PlansWithId(id) = {} => ans'[c].status = 404
                  /\ \A i \in PlansWithId(id) :
                        Permitted(user, plans[i].userId) =>
                            /\ ans'[c].status = 200
                            /\ ans'[c].type = "plan"
                            /\ ans'[c].data[1].id = id
      ]_vars

\* One get request has been answered with a report and another, for which no
\* report was found, with a plan.
C19_Witness ==
    /\ \E c \in Calls :
          /\ call[c].op = "get" /\ call[c].id = 2
          /\ ans[c].status = 200 /\ ans[c].type = "report"
    /\ \E c \in Calls :
          /\ call[c].op = "get" /\ call[c].id = 1
          /\ ans[c].status = 200 /\ ans[c].type = "plan"

\* The items are in the order of createdAt, latest first.
Descending(items) ==
    \A k \in 1..(Len(items) - 1) : items[k].createdAt >= items[k + 1].createdAt

\* C20: the list a list request is answered with has every item tagged plan
\* or report and is in descending order of createdAt across both kinds; with
\* type=plan it has plans only, with type=report reports only, and with a
\* status every report in it has that status.
C20_MergedList ==
    [][\A c \in Calls :
        (Answers(c) /\ call'[c].op = "list") =>
            LET items == ans'[c].data
                type == call'[c].type
                status == call'[c].status
            IN  /\ ans'[c].status = 200
                /\ \A k \in 1..Len(items) : items[k].type \in {"plan", "report"}
                /\ Descending(items)
                /\ type = "plan" => \A k \in 1..Len(items) : items[k].type = "plan"
                /\ type = "report" => \A k \in 1..Len(items) : items[k].type = "report"
                /\ status # "" =>
                      \A k \in 1..Len(items) :
                          items[k].type = "report" => items[k].status = status
                /\ \A k \in 1..Len(items) :
                      \/ items[k].type = "plan" /\ PlansWithId(items[k].id) # {}
                      \/ items[k].type = "report" /\ ReportsWithId(items[k].id) # {}
      ]_vars

\* "u1" has listed everything and got a new report, plan 3, report 2 and
\* plan 1 in that order, and has listed the completed reports and got
\* report 2 alone while the new report is queued.
C20_Witness ==
    /\ \E c \in Calls :
          /\ call[c].op = "list" /\ call[c].type = "" /\ call[c].status = ""
          /\ Len(ans[c].data) = 4
          /\ ans[c].data[1].type = "report"
          /\ ans[c].data[2].type = "plan" /\ ans[c].data[2].id = 3
          /\ ans[c].data[3].type = "report" /\ ans[c].data[3].id = 2
          /\ ans[c].data[4].type = "plan" /\ ans[c].data[4].id = 1
    /\ \E c \in Calls :
          /\ call[c].op = "list" /\ call[c].type = "report" /\ call[c].status = "completed"
          /\ Len(ans[c].data) = 1
          /\ ans[c].data[1].id = 2
          /\ Len(reports) = 2
          /\ reports[2].userId = "u1"
          /\ reports[2].status = "queued"

\* The headers of the response have been looked at.
HeadersSeen == fetch.pc \in {"body", "returned"} /\ fetch.error \notin {"abort", "network"}

\* The declared content type names pdf, audio, video, image or binary.
DeclaredMedia(contentType) ==
    \E i \in 1..Len(contentType) :
        contentType[i] \in {"pdf", "audio", "video", "image", "binary"}

DeclaredTooLarge(contentLength) == contentLength > 1048576

C22_ReturnsInTime ==
    fetch.pc \in Pending /\ req[1].pc = "fetch" => fetch.elapsed <= TIMEOUT

\* What the client of the generation endpoint sees of a response.
Visible(response) ==
    [status |-> response.status, error |-> response.error,
     testPlanId |-> response.testPlanId, generatedPlan |-> response.generatedPlan,
     rawAiResponse |-> response.rawAiResponse]

\* C23: a model call whose backend failed and a model call that came back
\* without text are answered differently: the two responses are not the
\* same to the one who receives them.
C23_FailuresDistinguishable ==
    \A r1 \in Slots, r2 \in Slots :
        res[r1].backend = "error" /\ res[r2].backend = "no text" =>
            Visible(res[r1]) # Visible(res[r2])

\* The place of a document among the documents S, latest createdAt first.
Place(doc, S) == 1 + Cardinality({d \in S : d.createdAt > doc.createdAt})

\* The documents of S on the page [skip, skip + limit) of S.
OnPage(S, skip, limit) ==
    {doc \in S : skip < Place(doc, S) /\ Place(doc, S) <= skip + limit}

\* The stored plans and reports a list request of this user chooses from.
PlansAsked(userId, search) ==
    {plans[i] : i \in {j \in 1..Len(plans) :
        /\ plans[j].userId = userId
        /\ search # "" =>
              \/ SearchMatches(search, plans[j].docLink)
              \/ SearchMatches(search, plans[j].appUrl)}}
ReportsAsked(userId, status) ==
    {reports[i] : i \in {j \in 1..Len(reports) :
        reports[j].userId = userId /\ (status = "" \/ reports[j].status = status)}}

\* The plan of the report is stored and its docLink or appUrl matches.
PlanOfReportMatches(report, search) ==
    \E i \in 1..Len(plans) :
        /\ plans[i].id = report.testPlanId
        /\ SearchMatches(search, plans[i].docLink) \/ SearchMatches(search, plans[i].appUrl)

ItemIds(items, type) == {items[k].id : k \in {j \in 1..Len(items) : items[j].type = type}}

LenientOnly(v) ==
    /\ v.t = "array"
    /\ Len(v.items) > 0
    /\ \A i \in 1..Len(v.items) :
          /\ v.items[i].t = "object"
          /\ v.items[i].name = "string"
          /\ v.items[i].steps.t = "array"
    /\ \E i \in 1..Len(v.items) :
          \E j \in 1..Len(v.items[i].steps.items) :
              v.items[i].steps.items[j].action # "string"

\* C26: a model output that parses to a non-empty array of cases with a
\* string name and a steps array, in which some step has no string action,
\* is never answered with the error for a malformed output.
C26_LenientAccepted ==
    \A r \in Slots :
        res[r].error = MalformedOutput =>
            ~(/\ JsonParse(extractCodeSnippet(res[r].aiResponse)).ok
              /\ LenientOnly(ParsedArray(res[r].aiResponse)))

\* C27: every plan that gets stored carries in modelUsed the model the call
\* that generated it was made with.
C27_ModelUsedIsInvoked ==
    [][\A r \in Slots :
        (req[r].pc = "savePlan" /\ req'[r].pc = "idle" /\ Len(plans') = Len(plans) + 1) =>
            plans'[Len(plans')].modelUsed = req[r].modelName
      ]_vars

\* C28: the request count of a stored user record is never above the daily
\* limit, and neither is the count a request in the limiter is about to
\* save, whatever the requests, the days and the subscription events do and
\* however the requests of a user overlap.
C28_CountWithinLimit ==
    /\ \A u \in UserIds : users[u].aiRequestCount <= DailyLimit
    /\ \A r \in Slots :
          req[r].pc = "saveUser" => req[r].user.aiRequestCount \in 1..DailyLimit

\* Four requests of "u1" have been let through today, all of them are over,
\* and the stored count is 3.
C28_Witness ==
    /\ admitted["u1"] = DailyLimit + 1
    /\ users["u1"].aiRequestCount = DailyLimit
    /\ users["u1"].lastAiRequestTime = today
    /\ \A r \in Slots : req[r].pc = "idle"

\* C29: the step in which the limiter answers 429 writes nothing, neither
\* the user record nor a plan, and ends the request: its slot holds no local
\* of the limiter or of the handler, and as long as 429 is the response of a
\* slot nothing runs in it.
C29_RejectedWritesNothing ==
    [][\A r \in Slots :
        /\ (TurnedAway(r) /\ (req'[r] # req[r] \/ res'[r] # res[r])) =>
              /\ users' = users
              /\ plans' = plans
              /\ nextId' = nextId
              /\ admitted' = admitted
              /\ req'[r] = Finished(req'[r])
        /\ res[r].status = 429 => req[r].pc = "idle"
      ]_vars

\* "u1" has been answered 429 on the day of the third request let through:
\* the record holds count 3 and that day.
C29_Witness ==
    \E r \in Slots :
        /\ res[r].status = 429
        /\ req[r].userId = "u1" /\ req[r].pc = "idle"
        /\ users["u1"].aiRequestCount = DailyLimit
        /\ users["u1"].lastAiRequestTime = today
        /\ admitted["u1"] = DailyLimit
        /\ plans = <<>>

\* The steps of one generation request in their order: from where a slot is
\* to where one step may take it.
PipelineOrder ==
    {<<"idle", "idle">>, <<"idle", "saveUser">>, <<"idle", "fetch">>,
     <<"saveUser", "idle">>, <<"saveUser", "fetch">>, <<"fetch", "model">>,
     <<"model", "idle">>, <<"model", "savePlan">>, <<"savePlan", "idle">>}

\* C25: a generation request goes through quota admission, content fetch
\* with prompt construction, the model call with extraction, parsing and
\* validation, and persistence, in that order and each at most once: the
\* fetch starts only after the limiter let the request through, a request
\* answered 429 goes no further, the model call is not repeated, and a plan
\* is stored only by a request whose model output was parsed and validated.
C25_PipelineOrder ==
    [][/\ \A r \in Slots :
            /\ req'[r] # req[r] => <<req[r].pc, req'[r].pc>> \in PipelineOrder
            /\ (req[r].pc = "idle" /\ req'[r].pc = "fetch") =>
                  ~IsLimited(users[req'[r].userId])
            /\ (req[r].pc = "saveUser" /\ req'[r] # req[r]) =>
                  users'[req[r].userId].aiRequestCount = req[r].user.aiRequestCount
            /\ res'[r].status = 429 => req'[r].pc = "idle"
            /\ req'[r].pc = "savePlan" =>
                  /\ ParsePlan(req'[r].aiResponse).ok
                  /\ req'[r].plan = ParsePlan(req'[r].aiResponse).plan
       /\ plans' # plans =>
            \E r \in Slots :
                /\ req[r].pc = "savePlan" /\ req'[r].pc = "idle"
                /\ ParsePlan(req[r].aiResponse).ok
                /\ plans' = Append(plans, NewTestPlan(req[r]))
      ]_vars

\* "u1" has had one request go through the whole pipeline and be stored, and
\* a later one answered 429.
C25_Witness ==
    /\ Len(plans) = 1
    /\ plans[1].userId = "u1"
    /\ \E r \in Slots : req[r].userId = "u1" /\ res[r].status = 201 /\ req[r].pc = "idle"
    /\ \E r \in Slots : req[r].userId = "u1" /\ res[r].status = 429 /\ req[r].pc = "idle"
    /\ admitted["u1"] = DailyLimit

\* A get or a list request arrives or goes on in this step.
ReadStep ==
    \E c \in Calls : call'[c] # call[c] /\ call'[c].op \in {"get", "list"}

\* Slot c holds the answer 200 to a get.
GotById(c) == call[c].op = "get" /\ call[c].pc = "idle" /\ ans[c].status = 200

\* C24: a stored plan stays stored with every field as it was, whatever
\* generate, run, get and list do; a step of a get or of a list writes
\* nothing: the plans, the reports, the users and the next id are as before;
\* and a get that follows a get of the same id by the same user that was
\* answered with a document gets the same answer.  The later get is one that
\* is answered in the step it arrives in, or one that is answered with a
\* plan lookup after the earlier one was answered with a plan: a get that
\* had looked for the report before the earlier answer was given overlaps
\* with the write of that report and is not a later one.
C24_PlansImmutable ==
    [][/\ \A i \in 1..Len(plans) : i <= Len(plans') /\ plans'[i] = plans[i]
       /\ Len(plans') <= Len(plans) + 1
       /\ ReadStep =>
            /\ plans' = plans
            /\ reports' = reports
            /\ users' = users
            /\ nextId' = nextId
       /\ \A c \in Calls, earlier \in Calls :
            (/\ Answers(c) /\ call'[c].op = "get"
             /\ earlier # c /\ GotById(earlier)
             /\ call[earlier].id = call'[c].id
             /\ call[earlier].user = call'[c].user
             /\ call[c].pc = "idle" \/ ans[earlier].type = "plan") =>
                ans'[c] = ans[earlier]
      ]_vars

\* Plan 1 is stored and has been run as report 2, two gets of plan 1 have
\* been answered with it, the second after the run, and another generation
\* is on its way.
C24_Witness ==
    /\ Len(plans) = 1 /\ plans[1].id = 1
    /\ Len(reports) = 1 /\ reports[1].testPlanId = 1
    /\ call[2].op = "get" /\ call[2].id = 1 /\ call[2].pc = "idle"
    /\ call[1].op = "get" /\ call[1].id = 1 /\ call[1].pc = "idle"
    /\ ans[1].status = 200 /\ ans[1].type = "plan" /\ ans[2] = ans[1]
    /\ \E r \in Slots : req[r].pc \in {"fetch", "model"}

====
